---- MODULE Spec2Model ----
(***************************************************************************)
(* flowlib: Getter (cache, semaphore, retrying fetch) and run_flow (one    *)
(* task per linkage, fan-out through asyncio.gather, shared accumulator,   *)
(* callback).  One action is one uninterrupted stretch of a coroutine,     *)
(* from one suspension point (await of network I/O, of a sleep, of a busy  *)
(* semaphore, of a gather) to the next.                                    *)
(***************************************************************************)
EXTENDS Integers, Sequences, FiniteSets, TLC

\* ---------------------------------------------------------------- bounds
\* Getter(max_retries, workers) is constructed with max_retries in
\* 0..MaxRetries and workers in 1..MaxWorkers; at most MaxFaults requests of
\* one behaviour are answered otherwise than by a 200 response.
MaxRetries == 2
MaxWorkers == 2
MaxFaults == 2

\* ------------------------------------------------------- declared inputs
\* Python's None, the value recorded for an output field without a match.
None == "None"

\* The two declared endpoints; base_url is the endpoint's identity.
\* output_params keeps the declaration order of the dict.
API(u) ==
    [base_url |-> u,
     output_params |-> IF u = "A" THEN <<"f", "g">> ELSE <<"d">>,
     error_handlers |-> IF u = "A" THEN {404} ELSE {}]

\* What the handler registered on endpoint u for a status returns.
ErrorHandler(u, status) ==
    <<[key |-> "f", isList |-> TRUE, val |-> <<"nt">>]>>

\* The JSON document an endpoint answers a 200 with, as the values the path
\* expression of each declared output field matches in it, in document
\* order: comic "1" has two matches for f and none for g, comic "2" has one
\* match for f; the dictionary entry of any word has one match for d.
Bodies(u, params) ==
    IF u = "A"
    THEN IF params = [id |-> "1"]
         THEN {[f |-> <<"v1", "v2">>, g |-> <<>>]}
         ELSE {[f |-> <<"v1">>, g |-> <<>>]}
    ELSE {[d |-> <<"x">>]}

\* The statuses a response may carry.
Statuses == {200, 404}

\* The linkage functions of the flows: from the singleton map {key: value}
\* to the list of downstream parameter maps.
LinkageFunction(fn, key, value) ==
    CASE fn = "wrap" -> <<[word |-> value]>>
      [] fn = "fan" -> <<[word |-> value], [word |-> "v1"], [word |-> "v2"]>>
      [] OTHER -> <<>>

APILinkage(a, b, fn) == [type |-> "api", start_api |-> a, end_api |-> b, fn |-> fn]
PythonLinkage == [type |-> "python", start_api |-> "", end_api |-> "", fn |-> "count"]

\* The scenarios: a flow and the start parameters of the run_flow calls that
\* share one Getter (flowlib-demo.py gathers several run_flow calls).
Scenarios ==
    { [flow |-> <<APILinkage("A", "B", "wrap"), PythonLinkage>>,
       starts |-> <<[id |-> "1"]>>],
      [flow |-> <<APILinkage("A", "B", "fan")>>,
       starts |-> <<[id |-> "2"]>>],
      [flow |-> <<APILinkage("A", "B", "wrap"), APILinkage("A", "B", "wrap")>>,
       starts |-> <<[id |-> "2"]>>],
      [flow |-> <<APILinkage("A", "B", "wrap"), PythonLinkage>>,
       starts |-> <<[id |-> "2"], [id |-> "2"]>>] }

\* The largest number of parameter maps a linkage function returns.
MaxFan == Len(LinkageFunction("fan", "f", "v1"))

\* The transform function of the PythonLinkage: from the accumulator to a
\* delta that records, under the key "T", which endpoints have an entry.
Transform(acc) == [k \in {"T"} |-> [seen |-> DOMAIN acc]]

\* ----------------------------------------------------------------- state
VARIABLES
    workers,      \* Getter(workers=...): the size of the semaphore
    max_retries,  \* Getter.max_retries
    flow,         \* the APIFlow's linkages
    starts,       \* start_params of each run_flow call
    cache,        \* Getter.cache: cache key -> FetchResult
    permits,      \* the semaphore's value
    calls,        \* the fetch_with_retry calls, by <<run, step, branch>>
    steps,        \* the process_linkage tasks, by <<run, step>>
    runs,         \* each run_flow call: "new", "running", "returned", "raised"
    results,      \* each run's accumulator: base_url -> latest response
    requests,     \* cache key -> number of session.request calls issued
    callbacks,    \* the callback invocations made by the latest step
    faults        \* number of requests answered otherwise than by a 200

config == <<workers, max_retries, flow, starts>>
vars == <<workers, max_retries, flow, starts, cache, permits, calls, steps,
          runs, results, requests, callbacks, faults>>

Runs == 1 .. Len(starts)
Steps == 1 .. Len(flow)
StepIds == Runs \X Steps
CallIds == Runs \X Steps \X (0 .. MaxFan)

\* A Python dict is a function; {} is the function with the empty domain.
EmptyDict == <<>>
Put(d, k, v) == [j \in DOMAIN d \cup {k} |-> IF j = k THEN v ELSE d[j]]
UpdateReplacing(d, e) == e
Update(d, e) == [j \in DOMAIN d \cup DOMAIN e |-> IF j \in DOMAIN e THEN e[j] ELSE d[j]]
Get(d, k, default) == IF k \in DOMAIN d THEN d[k] ELSE default

NoCall ==
    [pc |-> "idle", api |-> "", params |-> EmptyDict, retry |-> 0,
     attempts |-> 0, nreq |-> 0, fails |-> 0, sleeps |-> <<>>, status |-> 0,
     result |-> EmptyDict]

NoStep ==
    [pc |-> "init", outputs |-> <<>>, fi |-> 1, vi |-> 1, nb |-> 0,
     lfargs |-> <<>>, nmaps |-> 0, nfetch |-> 0, ncb |-> 0, exc |-> "",
     arrived |-> <<>>]

\* The mutable state as one record, so that the straight-line code of one
\* coroutine stretch composes as functions from state to state.
State ==
    [cache |-> cache, permits |-> permits, calls |-> calls, steps |-> steps,
     runs |-> runs, results |-> results, requests |-> requests,
     callbacks |-> <<>>, faults |-> faults]

\* The state after a stretch; `new` is bound once to the stretch's result.
Commit(st) ==
    \E new \in {st} :
        /\ cache' = new.cache
        /\ permits' = new.permits
        /\ calls' = new.calls
        /\ steps' = new.steps
        /\ runs' = new.runs
        /\ results' = new.results
        /\ requests' = new.requests
        /\ callbacks' = new.callbacks
        /\ faults' = new.faults
        /\ UNCHANGED config

\* ------------------------------------------------------ process_linkage
\* The position of x in the sequence seq, 0 when it is not in it.
IndexOf(seq, x) ==
    IF \E i \in DOMAIN seq : seq[i] = x
    THEN CHOOSE i \in DOMAIN seq : seq[i] = x
    ELSE 0

\* callback(results): the callback sees the run's accumulator as it is now.
\* The invocation is recorded with the end_response being delivered, the
\* output_data of the linkage function call it stems from and the rank of
\* its branch among the returns of the gather's tasks (`cur` is bound once
\* to the state at the invocation).
callback(st, r, s, b) ==
    CHOOSE new \in
        { [cur EXCEPT
              !.callbacks =
                  Append(@, [run |-> r, step |-> s, branch |-> b,
                             results |-> cur.results[r],
                             end_response |-> cur.calls[<<r, s, b>>].result,
                             output_data |->
                                 IF cur.steps[<<r, s>>].lfargs = <<>>
                                 THEN <<>>
                                 ELSE cur.steps[<<r, s>>].lfargs[
                                          Len(cur.steps[<<r, s>>].lfargs)],
                             arrival |-> IndexOf(cur.steps[<<r, s>>].arrived, b)]),
              !.steps[<<r, s>>].ncb = @ + 1] : cur \in {st} } : TRUE

\* A loop that takes only the first value of a field.
ValuesFirstOnly(e) == <<e.val[1]>>

\* `if not isinstance(values, list): values = [values]`
Values(e) == IF e.isList THEN e.val ELSE <<e.val[1]>>

\* The tasks asyncio.gather creates for the fetch_with_retry coroutines of
\* one end_params_list.
GatherTasks(cs, r, s, end_api, end_params_list) ==
    [c \in DOMAIN cs |->
        IF c[1] = r /\ c[2] = s /\ c[3] >= 1
        THEN IF c[3] <= Len(end_params_list)
             THEN [NoCall EXCEPT !.pc = "created", !.api = end_api,
                                 !.params = end_params_list[c[3]]]
             ELSE NoCall
        ELSE cs[c]]

\* The two nested loops over outputs.items() and values, from the position
\* (fi, vi) up to the next gather that has something to wait for.
RECURSIVE NextWave(_, _, _)
NextWave(st, r, s) ==
    LET id == <<r, s>>
        step == st.steps[id]
        linkage == flow[s]
    IN  IF step.fi > Len(step.outputs)
        THEN [st EXCEPT !.steps[id].pc = "done", !.steps[id].arrived = <<>>]
        ELSE
          LET e == step.outputs[step.fi]
              values == Values(e)
          IN  IF step.vi > Len(values)
              THEN NextWave([st EXCEPT !.steps[id].fi = @ + 1,
                                       !.steps[id].vi = 1], r, s)
              ELSE
                LET value == values[step.vi]
                    end_params_list == LinkageFunction(linkage.fn, e.key, value)
                    n == Len(end_params_list)
                    st1 == [st EXCEPT !.steps[id].lfargs = Append(@, <<e.key, value>>),
                                      !.steps[id].nmaps = @ + n,
                                      !.steps[id].nb = n,
                                      !.steps[id].arrived = <<>>]
                IN  IF n = 0
                    THEN NextWave([st1 EXCEPT !.steps[id].vi = @ + 1], r, s)
                    ELSE [st1 EXCEPT !.steps[id].pc = "wave",
                                     !.calls = GatherTasks(@, r, s, linkage.end_api,
                                                           end_params_list)]

\* A process_linkage that does not record the start_api response.
AfterSourceUnrecorded(st, r, s, start_response) ==
    LET id == <<r, s>>
    IN  IF "output" \notin DOMAIN start_response
        THEN [st EXCEPT !.steps[id].pc = "raised", !.steps[id].exc = "KeyError"]
        ELSE NextWave([st EXCEPT !.steps[id].outputs = start_response["output"],
                                 !.steps[id].fi = 1,
                                 !.steps[id].vi = 1], r, s)

\* process_linkage from the return of the start_api fetch: lines 146-148.
AfterSource(st, r, s, start_response) ==
    LET id == <<r, s>>
        st1 == [st EXCEPT !.results[r] =
                    Put(@, API(flow[s].start_api).base_url, start_response)]
    IN  IF "output" \notin DOMAIN start_response
        THEN [st1 EXCEPT !.steps[id].pc = "raised", !.steps[id].exc = "KeyError"]
        ELSE NextWave([st1 EXCEPT !.steps[id].outputs = start_response["output"],
                                  !.steps[id].fi = 1,
                                  !.steps[id].vi = 1], r, s)

\* ----------------------------------------------------------------- Getter
\* A fetch_with_retry that keeps its permit.
semaphore_leak(st) == st

\* Leaving `async with self.semaphore`.
semaphore_release(st) == [st EXCEPT !.permits = @ + 1]

\* A semaphore that never makes a caller wait.
CanAcquireUnbounded(st) == TRUE

\* Whether `async with self.semaphore` is entered without waiting.
CanAcquire(st) == st.permits > 0

\* fetch_with_retry returns `result`; a start_api fetch is awaited inside
\* process_linkage, which goes on in the same stretch.
Return(st, c, result) ==
    LET st1 == [semaphore_release(st) EXCEPT !.calls[c].pc = "returned",
                                             !.calls[c].result = result]
    IN  IF c[3] = 0
        THEN AfterSource(st1, c[1], c[2], result)
        ELSE [st1 EXCEPT !.steps[<<c[1], c[2]>>].arrived = Append(@, c[3])]

\* An exception other than ClientResponseError leaves fetch_with_retry.
Raise(st, c) ==
    LET st1 == [semaphore_release(st) EXCEPT !.calls[c].pc = "raised"]
    IN  IF c[3] = 0
        THEN [st1 EXCEPT !.steps[<<c[1], c[2]>>].pc = "raised",
                         !.steps[<<c[1], c[2]>>].exc = "Exception"]
        ELSE st1

ParamItems(params) == {<<k, params[k]>> : k \in DOMAIN params}
CacheKey(api, params) == <<api.base_url, ParamItems(params)>>

\* fetch up to its first suspension: the cache lookup, and on a miss the
\* request (a session that run_flow has left is closed and refuses it).
fetch(st, c) ==
    LET call == st.calls[c]
        cache_key == CacheKey(API(call.api), call.params)
        st1 == [st EXCEPT !.calls[c].attempts = @ + 1]
    IN  IF cache_key \in DOMAIN st.cache
        THEN Return(st1, c, st.cache[cache_key])
        ELSE IF st.runs[c[1]] # "running"
        THEN Raise(st1, c)
        ELSE [st1 EXCEPT !.calls[c].pc = "request",
                         !.calls[c].nreq = @ + 1,
                         !.requests = Put(@, cache_key, Get(@, cache_key, 0) + 1)]

\* A retry loop that runs once too often.
RetryRangeOffByOne == 0 .. max_retries

\* `for retry in range(self.max_retries)`
RetryRange == 0 .. (max_retries - 1)

\* A retry loop that stores the empty result of an exhausted fetch.
AttemptCachingEmpty(st, c, retry) ==
    IF retry \in RetryRange
    THEN fetch([st EXCEPT !.calls[c].retry = retry], c)
    ELSE Return([st EXCEPT !.cache =
                     Put(@, CacheKey(API(st.calls[c].api), st.calls[c].params),
                         EmptyDict)],
                c, EmptyDict)

\* The retry loop of fetch_with_retry from iteration `retry` on.
Attempt(st, c, retry) ==
    IF retry \in RetryRange
    THEN fetch([st EXCEPT !.calls[c].retry = retry], c)
    ELSE Return(st, c, EmptyDict)

\* A fetch_with_retry that enters the loop without taking a permit.
AcquireWithoutPermit(st, c) == Attempt(st, c, 0)

\* Entering `async with self.semaphore` and the loop.
Acquire(st, c) == Attempt([st EXCEPT !.permits = @ - 1], c, 0)

\* fetch_with_retry from its start up to its first suspension (nfetch
\* counts the downstream calls of the step).
fetch_with_retry(st, c) ==
    LET st1 == IF c[3] >= 1
               THEN [st EXCEPT !.steps[<<c[1], c[2]>>].nfetch = @ + 1]
               ELSE st
    IN  IF CanAcquire(st1)
        THEN Acquire(st1, c)
        ELSE [st1 EXCEPT !.calls[c].pc = "waiting"]

\* An extraction that records the empty list of matches as it is.
ExtractWithoutSentinel(api, body) ==
    [i \in 1 .. Len(api.output_params) |->
        [key |-> api.output_params[i], isList |-> TRUE,
         val |-> body[api.output_params[i]]]]

\* `matches or None` for every declared output field, in declaration order.
Extract(api, body) ==
    [i \in 1 .. Len(api.output_params) |->
        LET matches == body[api.output_params[i]]
        IN  IF matches = <<>>
            THEN [key |-> api.output_params[i], isList |-> FALSE, val |-> <<None>>]
            ELSE [key |-> api.output_params[i], isList |-> TRUE, val |-> matches]]

\* Outputs that ignore the registered error handlers.
OutputsIgnoringHandler(api, o) ==
    IF o.status = 200 THEN Extract(api, o.body) ELSE EmptyDict

\* The outputs of a response: lines 102-116.
Outputs(api, o) ==
    IF o.status = 200
    THEN Extract(api, o.body)
    ELSE IF o.status \in api.error_handlers
    THEN ErrorHandler(api.base_url, o.status)
    ELSE EmptyDict

\* What awaiting session.request and the response may end with.
Outcomes(u, params) ==
    {[kind |-> "response", status |-> 200, body |-> b] : b \in Bodies(u, params)}
    \cup {[kind |-> "response", status |-> x, body |-> EmptyDict] : x \in Statuses \ {200}}
    \cup {[kind |-> k, status |-> 0, body |-> EmptyDict] :
            k \in {"ClientResponseError", "Exception"}}

IsFault(o) == ~(o.kind = "response" /\ o.status = 200)

\* fetch from the end of the request on, and the except clause of
\* fetch_with_retry.
Respond(st, c, o) ==
    LET call == st.calls[c]
        api == API(call.api)
        cache_key == CacheKey(api, call.params)
        result == [input |-> call.params, output |-> Outputs(api, o)]
        st1 == [st EXCEPT !.faults = IF IsFault(o) THEN @ + 1 ELSE @]
    IN  CASE o.kind = "response" ->
               Return([st1 EXCEPT !.cache = Put(@, cache_key, result),
                                  !.calls[c].status = o.status], c, result)
          [] o.kind = "ClientResponseError" ->
               [st1 EXCEPT !.calls[c].pc = "sleep",
                           !.calls[c].fails = @ + 1,
                           !.calls[c].sleeps = Append(@, 2 ^ call.retry)]
          [] OTHER -> Raise(st1, c)

\* ------------------------------------------------------- process_linkage
\* A delivery that reports one gather with a single callback.
DeliverOncePerGather(st, r, s, b) ==
    LET n == st.steps[<<r, s>>].nb
    IN  IF n = 0
        THEN st
        ELSE callback([st EXCEPT !.results[r] =
                           Put(@, API(flow[s].end_api).base_url,
                               st.calls[<<r, s, n>>].result)],
                      r, s, n)

\* A delivery that writes every response of the gather before it invokes
\* the callbacks.
DeliverAfterAllWrites(st, r, s, b) ==
    LET n == st.steps[<<r, s>>].nb
        written == IF n = 0
                   THEN st
                   ELSE [st EXCEPT !.results[r] =
                             Put(@, API(flow[s].end_api).base_url,
                                 st.calls[<<r, s, n>>].result)]
        RECURSIVE Invoke(_, _)
        Invoke(t, i) == IF i > n THEN t ELSE Invoke(callback(t, r, s, i), i + 1)
    IN  Invoke(written, b)

\* A delivery in the order in which the gather's tasks returned.
DeliverInArrivalOrder(st, r, s, b) ==
    LET arrived == st.steps[<<r, s>>].arrived
        RECURSIVE Go(_, _)
        Go(t, i) ==
            IF i > Len(arrived)
            THEN t
            ELSE Go(callback([t EXCEPT !.results[r] =
                                  Put(@, API(flow[s].end_api).base_url,
                                      t.calls[<<r, s, arrived[i]>>].result)],
                             r, s, arrived[i]),
                    i + 1)
    IN  Go(st, b)

\* `for end_response in end_responses`: lines 159-161.
RECURSIVE Deliver(_, _, _, _)
Deliver(st, r, s, b) ==
    IF b > st.steps[<<r, s>>].nb
    THEN st
    ELSE Deliver(callback([st EXCEPT !.results[r] =
                               Put(@, API(flow[s].end_api).base_url,
                                   st.calls[<<r, s, b>>].result)],
                          r, s, b),
                 r, s, b + 1)

WaveRaised(st, r, s) ==
    \E b \in 1 .. st.steps[<<r, s>>].nb : st.calls[<<r, s, b>>].pc = "raised"
WaveReturned(st, r, s) ==
    \A b \in 1 .. st.steps[<<r, s>>].nb : st.calls[<<r, s, b>>].pc = "returned"

\* process_linkage from the end of `await asyncio.gather(...)` on.
AfterGather(st, r, s) ==
    IF WaveRaised(st, r, s)
    THEN [st EXCEPT !.steps[<<r, s>>].pc = "raised",
                    !.steps[<<r, s>>].exc = "Exception"]
    ELSE CHOOSE new \in
             { NextWave([delivered EXCEPT !.steps[<<r, s>>].vi = @ + 1], r, s) :
                   delivered \in {Deliver(st, r, s, 1)} } : TRUE

\* process_linkage from its start up to its first suspension.
process_linkage(st, r, s) ==
    LET id == <<r, s>>
        linkage == flow[s]
    IN  IF linkage.type = "api"
        THEN fetch_with_retry(
                 [st EXCEPT !.steps[id].pc = "source",
                            !.calls[<<r, s, 0>>] =
                                [NoCall EXCEPT !.pc = "created",
                                               !.api = linkage.start_api,
                                               !.params = starts[r]]],
                 <<r, s, 0>>)
        ELSE callback([st EXCEPT !.results[r] = Update(@, Transform(@)),
                                 !.steps[id].pc = "done"], r, s, 0)

\* The first stretches of the fetch_with_retry tasks b, b + 1, ... of a gather.
RECURSIVE StartTasks(_, _, _, _)
StartTasks(st, r, s, b) ==
    IF b > st.steps[<<r, s>>].nb
    THEN st
    ELSE CHOOSE new \in
             { StartTasks(started, r, s, b + 1) :
                   started \in {fetch_with_retry(st, <<r, s, b>>)} } : TRUE

\* The first stretches of the process_linkage tasks s, s + 1, ... of a run.
RECURSIVE StartLinkages(_, _, _)
StartLinkages(st, r, s) ==
    IF s > Len(flow)
    THEN st
    ELSE CHOOSE new \in
             { StartLinkages(started, r, s + 1) :
                   started \in {process_linkage(st, r, s)} } : TRUE

\* run_flow up to `await asyncio.gather(*tasks)` and the tasks' start.
run_flow(st, r) == StartLinkages([st EXCEPT !.runs[r] = "running"], r, 1)

\* --------------------------------------------------------------- actions
Init ==
    /\ \E sc \in Scenarios : flow = sc.flow /\ starts = sc.starts
    /\ workers \in 1 .. MaxWorkers
    /\ max_retries \in 0 .. MaxRetries
    /\ cache = EmptyDict
    /\ permits = workers
    /\ calls = [c \in CallIds |-> NoCall]
    /\ steps = [id \in StepIds |-> NoStep]
    /\ runs = [r \in Runs |-> "new"]
    /\ results = [r \in Runs |-> EmptyDict]
    /\ requests = EmptyDict
    /\ callbacks = <<>>
    /\ faults = 0

\* run_flow is called: it opens the session and gathers one process_linkage
\* task per linkage. The tasks are scheduled together and run their first
\* stretch one after the other, in the order of flow.linkages.
StartRun(r) ==
    /\ runs[r] = "new"
    /\ Commit(run_flow(State, r))

\* The fetch_with_retry tasks of one gather, scheduled together, run their
\* first stretch one after the other, in the order of end_params_list.
StartBranches(r, s) ==
    /\ calls[<<r, s, 1>>].pc = "created"
    /\ Commit(StartTasks(State, r, s, 1))

\* A fetch_with_retry waiting for the semaphore gets it.
AcquirePermit(c) ==
    /\ calls[c].pc = "waiting"
    /\ CanAcquire(State)
    /\ Commit(Acquire(State, c))

\* The request of a fetch ends: with a response, or with an exception.
Response(c) ==
    /\ calls[c].pc = "request"
    /\ \E o \in Outcomes(calls[c].api, calls[c].params) :
          /\ IsFault(o) => faults < MaxFaults
          /\ Commit(Respond(State, c, o))

\* `await asyncio.sleep(2**retry)` ends.
WakeUp(c) ==
    /\ calls[c].pc = "sleep"
    /\ Commit(Attempt(State, c, calls[c].retry + 1))

\* The gather of a fan-out ends: all its tasks returned, or one raised.
GatherDone(r, s) ==
    /\ steps[<<r, s>>].pc = "wave"
    /\ WaveRaised(State, r, s) \/ WaveReturned(State, r, s)
    /\ Commit(AfterGather(State, r, s))

StepRaised(r) == \E s \in Steps : steps[<<r, s>>].pc = "raised"
StepsDone(r) == \A s \in Steps : steps[<<r, s>>].pc = "done"

\* A gather that swallows the exceptions of its tasks.
GatherSwallows(r) == "returned"

\* How `await asyncio.gather(*tasks)` ends in run_flow: the first exception
\* of a task is raised to the awaiter.
GatherOutcome(r) == IF StepRaised(r) THEN "raised" ELSE "returned"

\* run_flow ends: `await asyncio.gather(*tasks)` returns or raises, and the
\* session is closed.
RunFlowEnd(r) ==
    /\ runs[r] = "running"
    /\ StepRaised(r) \/ StepsDone(r)
    /\ Commit([State EXCEPT !.runs[r] = GatherOutcome(r)])

Next ==
    \/ \E r \in Runs : StartRun(r)
    \/ \E id \in StepIds : StartBranches(id[1], id[2])
    \/ \E c \in CallIds : AcquirePermit(c)
    \/ \E c \in CallIds : Response(c)
    \/ \E c \in CallIds : WakeUp(c)
    \/ \E id \in StepIds : GatherDone(id[1], id[2])
    \/ \E r \in Runs : RunFlowEnd(r)

Spec == Init /\ [][Next]_vars

\* One run_flow call on a fresh Getter: a linkage, alone or with a transform.
InitOneRun ==
    /\ Init
    /\ Len(starts) = 1
    /\ \A s \in 2 .. Len(flow) : flow[s].type = "python"

\* The event loop runs a task that is ready, every request ends and every
\* sleep ends: a step that can be taken is taken.
FairSpec == InitOneRun /\ [][Next]_vars /\ WF_vars(Next)

\* ---------------------------------------------------------------- claims
\* The fetches that hold a permit: inside `async with self.semaphore`,
\* suspended on their request or on their backoff sleep.
InFlight == {c \in CallIds : calls[c].pc \in {"request", "sleep"}}

\* C1: as long as every request has been answered by a 200, at most one
\* request has been issued for any cache key, whatever the interleaving of
\* the tasks that fetch it.
C1_AtMostOneRequestPerKey ==
    faults = 0 => \A k \in DOMAIN requests : requests[k] <= 1

\* C2: the number of fetches in flight, over all steps, branches and runs
\* that share the Getter, never exceeds workers.
C2_InFlightAtMostWorkers == Cardinality(InFlight) <= workers

\* C2 witness: every permit is taken and further fetches of a fan-out wait.
C2_Witness ==
    /\ Cardinality(InFlight) = workers
    /\ workers = MaxWorkers
    /\ \E c \in CallIds : calls[c].pc = "waiting"

\* C3: a fetch_with_retry that returns a FetchResult after k transient
\* failures has made exactly k + 1 attempts, with k < max_retries; one whose
\* attempts all failed transiently has made exactly max_retries attempts and
\* returns the empty result, and it does not raise.
C3_RetryThenResult ==
    \A c \in CallIds :
        LET call == calls[c] IN
        /\ call.fails <= max_retries
        /\ (call.pc = "returned" /\ call.result # EmptyDict) =>
              /\ call.fails < max_retries
              /\ call.attempts = call.fails + 1
              /\ call.result.input = call.params
        /\ (call.pc \in {"returned", "raised"} /\ call.fails = max_retries) =>
              /\ call.pc = "returned"
              /\ call.result = EmptyDict
              /\ call.attempts = max_retries
              /\ call.nreq = max_retries

\* C3 witness: a fetch that failed once and then returned a FetchResult.
C3_Witness ==
    \E c \in CallIds :
        /\ calls[c].pc = "returned"
        /\ calls[c].fails = 1
        /\ calls[c].attempts = 2
        /\ calls[c].result # EmptyDict

\* C4: a run_flow call raises only when a fetch has raised an exception
\* that is not a retryable failure; exhausted retries do not abort it.
C4_ExhaustionDoesNotAbort ==
    \A r \in Runs :
        (max_retries > 0 /\ runs[r] = "raised") =>
            \E s \in Steps : steps[<<r, s>>].exc = "Exception"

\* The number of (field, value) pairs of an output map.
RECURSIVE NumValues(_)
NumValues(outputs) ==
    IF outputs = <<>>
    THEN 0
    ELSE (IF Head(outputs).isList THEN Len(Head(outputs).val) ELSE 1)
         + NumValues(Tail(outputs))

\* C5: a linkage step that has finished has invoked the callback once per
\* downstream parameter map and fetched once per map; with the wrapping
\* linkage function that is once per extracted value.
C5_OneCallbackPerMap ==
    \A id \in StepIds :
        (steps[id].pc = "done" /\ flow[id[2]].type = "api") =>
            /\ steps[id].ncb = steps[id].nmaps
            /\ steps[id].nfetch = steps[id].nmaps
            /\ flow[id[2]].fn = "wrap" => steps[id].ncb = NumValues(steps[id].outputs)
            /\ flow[id[2]].fn = "fan" =>
                  steps[id].ncb = MaxFan * NumValues(steps[id].outputs)

\* C5 witness: the field f yielded [v1, v2], each wrapped into one map, and
\* the step has finished: two callbacks for f and one for g's None.
C5_Witness ==
    \E id \in StepIds :
        /\ steps[id].pc = "done"
        /\ flow[id[2]].fn = "wrap"
        /\ steps[id].outputs # <<>>
        /\ steps[id].outputs[1].val = <<"v1", "v2">>
        /\ steps[id].ncb = 3

\* C6: the accumulator a linkage step hands to the callback has an entry
\* under the start_api's and under the end_api's base_url.
C6_CallbackSeesBothEndpoints ==
    \A i \in DOMAIN callbacks :
        LET cb == callbacks[i]
            linkage == flow[cb.step]
        IN  linkage.type = "api" =>
                {API(linkage.start_api).base_url, API(linkage.end_api).base_url}
                    \subseteq DOMAIN cb.results

\* C6 witness: a linkage step delivers a callback while the other step of
\* the same run is still fetching.
C6_Witness ==
    \E i \in DOMAIN callbacks : \E s \in Steps :
        /\ flow[callbacks[i].step].type = "api"
        /\ s # callbacks[i].step
        /\ steps[<<callbacks[i].run, s>>].pc \in {"source", "wave"}

\* C7: every entry of the accumulator that a fetch wrote is, when a linkage
\* step invokes the callback, a FetchResult with an input and an output,
\* also when the attempts of the downstream fetch all failed.
C7_EntriesAreFetchResults ==
    \A i \in DOMAIN callbacks :
        (max_retries > 0 /\ flow[callbacks[i].step].type = "api") =>
            \A u \in DOMAIN callbacks[i].results \cap {"A", "B"} :
                {"input", "output"} \subseteq DOMAIN callbacks[i].results[u]

\* C8: a fetch answered by a status other than 200 returns at once, after
\* one request for that attempt, with the registered handler's return value
\* as output, or the empty map without a handler; nothing is raised and
\* the step goes on.
C8_StatusNotRetried ==
    \A c \in CallIds :
        LET call == calls[c] IN
        (call.status \notin {0, 200}) =>
            /\ call.pc = "returned"
            /\ call.nreq = call.fails + 1
            /\ call.attempts = call.fails + 1
            /\ call.result =
                  [input |-> call.params,
                   output |-> IF call.status \in API(call.api).error_handlers
                              THEN ErrorHandler(call.api, call.status)
                              ELSE EmptyDict]
            /\ c[3] = 0 => steps[<<c[1], c[2]>>].exc # "KeyError"

\* C8 witness: the start_api answered 404, its handler's output was fanned
\* out, and the end_api, which has no handler, answered 404 too.
C8_Witness ==
    \E c \in CallIds :
        /\ c[3] >= 1
        /\ calls[c].status = 404
        /\ calls[c].result.output = EmptyDict
        /\ calls[<<c[1], c[2], 0>>].status = 404
        /\ calls[<<c[1], c[2], 0>>].result.output = ErrorHandler("A", 404)

\* A fetch of run r has raised an exception that is not retried.
Failed(r) == \E c \in CallIds : c[1] = r /\ calls[c].pc = "raised"

\* A task of run r issues a request, stores a response in the cache, writes
\* the accumulator or invokes the callback.
TaskActs(r) ==
    \/ \E c \in CallIds : c[1] = r /\ calls'[c].nreq > calls[c].nreq
    \/ \E c \in CallIds :
          c[1] = r /\ calls[c].pc = "request" /\ calls'[c].pc = "returned"
    \/ results'[r] # results[r]
    \/ \E i \in DOMAIN callbacks' : callbacks'[i].run = r

Quiet == \A c \in CallIds : calls[c].pc \notin {"created", "waiting", "request", "sleep"}

\* C10: every run_flow call ends, no task waits for a permit for ever, and
\* a run_flow call that returns does so after all its tasks have finished.
C10_RunFlowTerminates ==
    /\ <>(\A r \in Runs : runs[r] \in {"returned", "raised"})
    /\ <>[]Quiet
    /\ [](\A r \in Runs : runs[r] = "returned" =>
            /\ StepsDone(r)
            /\ \A c \in CallIds : c[1] = r => calls[c].pc \in {"idle", "returned"})

\* C10 witness: with one worker a fan-out of three has been fetched and
\* run_flow has returned.
C10_Witness ==
    /\ workers = 1
    /\ flow[1].fn = "fan"
    /\ runs[1] = "returned"
    /\ steps[<<1, 1>>].ncb = 2 * MaxFan

\* C11: a cache entry, once stored, is never replaced by a different value:
\* every later fetch of the key returns the FetchResult stored first.
C11_CacheEntryStable ==
    [][\A k \in DOMAIN cache : k \in DOMAIN cache' /\ cache'[k] = cache[k]]_vars

\* C12: when a linkage step invokes the callback, the accumulator's entry
\* under the end_api's base_url is the response of the branch being
\* delivered, whatever the other steps of the run have written there.
C12_CallbackSeesDeliveredResponse ==
    \A i \in DOMAIN callbacks :
        LET cb == callbacks[i]
            linkage == flow[cb.step]
        IN  linkage.type = "api" =>
                /\ API(linkage.end_api).base_url \in DOMAIN cb.results
                /\ cb.results[API(linkage.end_api).base_url] = cb.end_response

\* C12 witness: a step delivers a response while the other linkage step of
\* the run, which has already written the same endpoint, is in a fan-out.
C12_Witness ==
    \E i \in DOMAIN callbacks : \E s \in Steps :
        /\ flow[callbacks[i].step].type = "api"
        /\ callbacks[i].end_response # EmptyDict
        /\ s # callbacks[i].step
        /\ flow[s].type = "api"
        /\ steps[<<callbacks[i].run, s>>].ncb >= 1
        /\ steps[<<callbacks[i].run, s>>].pc = "wave"

\* C13 as stated: the callbacks of the branches of one fan-out are
\* delivered in the order in which the branches' responses arrived (here
\* with several workers, so that requests of one fan-out overlap).
C13_DeliveredInArrivalOrder ==
    \A i, j \in DOMAIN callbacks :
        (workers > 1 /\ flow[callbacks[i].step].type = "api" /\ i < j) =>
            callbacks[i].arrival < callbacks[j].arrival

\* C13 as amended: the callbacks of one fan-out are delivered after all its
\* branches have returned, in the order of the parameter maps that the
\* linkage function returned, whatever the order of arrival.
C13_DeliveredInListOrder ==
    \A i \in DOMAIN callbacks :
        flow[callbacks[i].step].type = "api" =>
            /\ callbacks[i].branch = i
            /\ callbacks[i].arrival \in 1 .. Len(callbacks)

\* C13 witness: a fan-out whose second branch returned before its first
\* has been delivered.
C13_Witness ==
    \E i, j \in DOMAIN callbacks :
        /\ workers > 1
        /\ flow[callbacks[i].step].type = "api"
        /\ i < j
        /\ callbacks[i].arrival > callbacks[j].arrival

\* C14: a transform step applies its function to the accumulator, writes
\* exactly the keys of the returned delta and leaves the other entries as
\* they are, issues no fetch, leaves the cache, the semaphore and the other
\* runs' accumulators alone, and invokes the callback exactly once: so it
\* is for the step applied in any reachable state, and so a finished
\* transform step has left things.
C14_TransformFrame ==
    \A r \in Runs : \A s \in Steps :
        flow[s].type = "python" =>
            LET st == process_linkage(State, r, s)
                delta == Transform(results[r])
            IN  /\ st.cache = cache
                /\ st.permits = permits
                /\ st.calls = calls
                /\ st.requests = requests
                /\ \A q \in Runs \ {r} : st.results[q] = results[q]
                /\ DOMAIN st.results[r] = DOMAIN results[r] \cup DOMAIN delta
                /\ \A k \in DOMAIN delta : st.results[r][k] = delta[k]
                /\ \A k \in DOMAIN results[r] \ DOMAIN delta :
                       st.results[r][k] = results[r][k]
                /\ Len(st.callbacks) = 1
                /\ st.callbacks[1].results = st.results[r]
                /\ steps[<<r, s>>].pc = "done" =>
                       /\ steps[<<r, s>>].ncb = 1
                       /\ steps[<<r, s>>].nfetch = 0
                       /\ \A c \in CallIds :
                              (c[1] = r /\ c[2] = s) => calls[c] = NoCall
                       /\ DOMAIN delta \subseteq DOMAIN results[r]

\* C14 witness: the transform step of a second run has run on an
\* accumulator that held the start_api's FetchResult, served from the
\* cache, and the callback saw both entries.
C14_Witness ==
    \E i \in DOMAIN callbacks :
        LET cb == callbacks[i] IN
        /\ flow[cb.step].type = "python"
        /\ steps[<<cb.run, cb.step>>].pc = "done"
        /\ DOMAIN cb.results = {"A", "T"}
        /\ cb.results["T"] = [seen |-> {"A"}]
        /\ "output" \in DOMAIN cb.results["A"]

\* C15: a fetch_with_retry holds one permit from before its first attempt,
\* through its attempts and backoff sleeps, until it returns or raises, and
\* holds none before or after: the free permits and the fetches in flight
\* always add up to workers.
C15_PermitsAccountedFor ==
    /\ permits \in 0 .. workers
    /\ permits + Cardinality(InFlight) = workers
    /\ \A c \in CallIds :
          (calls[c].attempts >= 1 /\ calls[c].pc \notin {"returned", "raised"})
              => c \in InFlight

\* C15 witness: one fetch has returned a FetchResult, one has exhausted its
\* retries, one has raised, and one is in flight, holding the only permit
\* that is not free.
C15_Witness ==
    /\ \E c \in CallIds : calls[c].pc = "returned" /\ calls[c].result # EmptyDict
    /\ \E c \in CallIds :
          calls[c].pc = "returned" /\ calls[c].result = EmptyDict /\ calls[c].fails >= 1
    /\ \E c \in CallIds : calls[c].pc = "raised"
    /\ Cardinality(InFlight) = 1
    /\ permits = workers - 1

\* C16: backoff sleeps occur only between two attempts of a fetch: the
\* sleep after failed attempt i lasts 2^i and is followed by attempt i + 1,
\* so a fetch that has ended after n attempts has slept n - 1 times.
C16_SleepsOnlyBetweenAttempts ==
    \A c \in CallIds :
        LET call == calls[c] IN
        /\ \A i \in DOMAIN call.sleeps : call.sleeps[i] = 2 ^ (i - 1)
        /\ (call.pc \in {"returned", "raised"} /\ call.attempts >= 1) =>
              Len(call.sleeps) = call.attempts - 1

\* C18: whatever max_retries is, 0 included, a fetch_with_retry that
\* returns the empty result has made at least one attempt (a cache lookup
\* or a request) before.
C18_AttemptBeforeEmptyResult ==
    \A c \in CallIds :
        (calls[c].pc = "returned" /\ calls[c].result = EmptyDict) =>
            calls[c].attempts >= 1

\* The (field, value) pairs of an output map, fields in declaration order
\* and the values of a field in their order, a scalar counting as one value.
RECURSIVE Pairs(_)
Pairs(outputs) ==
    IF outputs = <<>>
    THEN <<>>
    ELSE LET e == Head(outputs)
             n == IF e.isList THEN Len(e.val) ELSE 1
         IN  [i \in 1 .. n |-> <<e.key, e.val[i]>>] \o Pairs(Tail(outputs))

\* C17: the linkage function calls of a linkage step are, in order, one
\* call per (field, value) pair of the source's output, each with that one
\* pair; all of them once the step has finished; and while the fetches of
\* one call are under way, every map of the calls before has had its
\* callback and no map of this call has.
C17_OneCallPerPairInOrder ==
    \A id \in StepIds :
        LET step == steps[id]
            pairs == Pairs(step.outputs)
        IN  flow[id[2]].type = "api" =>
                /\ Len(step.lfargs) <= Len(pairs)
                /\ \A i \in DOMAIN step.lfargs : step.lfargs[i] = pairs[i]
                /\ step.pc = "done" => step.lfargs = pairs
                /\ step.pc = "wave" =>
                      /\ step.ncb = step.nmaps - step.nb
                      /\ step.nfetch \in {step.nmaps - step.nb, step.nmaps}

\* C17 witness: the source yielded two values for f and none for g, and the
\* step has finished after three calls of the linkage function.
C17_Witness ==
    \E id \in StepIds :
        /\ steps[id].pc = "done"
        /\ steps[id].lfargs = <<<<"f", "v1">>, <<"f", "v2">>, <<"g", None>>>>
        /\ steps[id].ncb = 3

\* A fetch_with_retry ends in this step by exhaustion or by an exception.
EndsWithoutResult(c) ==
    /\ calls'[c].pc # calls[c].pc
    /\ \/ calls'[c].pc = "raised"
       \/ calls'[c].pc = "returned" /\ calls'[c].result = EmptyDict

\* C19: every cache entry is a FetchResult with an input and an output,
\* stored under the key of its own input; and a fetch that ends by retry
\* exhaustion or by an exception leaves the cache as it was.
C19_CacheHoldsFetchResults ==
    /\ [](\A k \in DOMAIN cache :
            /\ {"input", "output"} \subseteq DOMAIN cache[k]
            /\ CacheKey(API(k[1]), cache[k].input) = k)
    /\ [][(\E c \in CallIds : EndsWithoutResult(c)) => cache' = cache]_vars

\* C19 witness: a fetch has exhausted its retries, its key is not in the
\* cache, and a later fetch of the same key has issued a request again.
C19_Witness ==
    \E c1, c2 \in CallIds :
        LET key == CacheKey(API(calls[c1].api), calls[c1].params) IN
        /\ workers = 1
        /\ calls[c1].pc = "returned"
        /\ calls[c1].result = EmptyDict
        /\ calls[c1].nreq >= 1
        /\ calls[c2].pc = "request"
        /\ calls[c2].api = calls[c1].api
        /\ calls[c2].params = calls[c1].params
        /\ key \notin DOMAIN cache
        /\ requests[key] = calls[c1].nreq + 1

\* C20: a declared output field without a match in a 200 response is
\* recorded as None; the linkage step calls the linkage function for it
\* once, with {field: None}, and every parameter map of that call is
\* fetched and handed to the callback in its turn.
C20_AbsentFieldFansOut ==
    /\ \A id \in StepIds :
          flow[id[2]].type = "api" =>
              LET src == calls[<<id[1], id[2], 0>>]
                  api == API(flow[id[2]].start_api)
                  lfargs == steps[id].lfargs
              IN  (src.pc = "returned" /\ src.status = 200) =>
                      \A i \in DOMAIN api.output_params :
                      \A body \in Bodies(api.base_url, src.params) :
                          LET field == api.output_params[i] IN
                          body[field] = <<>> =>
                              /\ src.result.output[i] =
                                    [key |-> field, isList |-> FALSE, val |-> <<None>>]
                              /\ Cardinality({j \in DOMAIN lfargs :
                                                 lfargs[j][1] = field}) <= 1
                              /\ \A j \in DOMAIN lfargs :
                                    lfargs[j][1] = field => lfargs[j][2] = None
                              /\ steps[id].pc = "done" =>
                                    \E j \in DOMAIN lfargs : lfargs[j] = <<field, None>>
    /\ \A i \in DOMAIN callbacks :
          LET cb == callbacks[i] IN
          (flow[cb.step].type = "api" /\ cb.output_data[2] = None) =>
              LET maps == LinkageFunction(flow[cb.step].fn, cb.output_data[1], None)
              IN  /\ Len(callbacks) = Len(maps)
                  /\ cb.branch = i
                  /\ \/ cb.end_response = EmptyDict
                     \/ cb.end_response.input = maps[i]

\* C20 witness: the field g had no match, the linkage function's map for
\* {g: None} has been fetched and its response handed to the callback, and
\* the step has finished.
C20_Witness ==
    \E i \in DOMAIN callbacks :
        LET cb == callbacks[i] IN
        /\ flow[cb.step].type = "api"
        /\ cb.output_data = <<"g", None>>
        /\ cb.end_response # EmptyDict
        /\ cb.end_response.input = [word |-> None]
        /\ steps[<<cb.run, cb.step>>].pc = "done"

====
